---- MODULE Spec2Model ----
(***************************************************************************)
(* A model of the citation-map service: the two Flask variants             *)
(* src/api/index.py ("api") and src/app.py ("app").                        *)
(*                                                                         *)
(* Python strings are modelled as sequences of one-character strings, so   *)
(* that the regular expressions, strip() and len() of the code are         *)
(* computed character by character.  Python's None is the sentinel None   *)
(* where the code expects a string (None is no character sequence) and     *)
(* NoCoords where it expects a dict.                                       *)
(***************************************************************************)
EXTENDS Integers, Sequences, FiniteSets, TLC

VARIABLES
    fnArg,          \* argument of the pure function under study
    fnRet,          \* its return values, or Unset before the call
    fnDone,         \* whether the call has been made
    variant,        \* the module the process runs: "api" or "app"
    geocode_cache,  \* the dict geocode_cache: stripped institution -> result
    lru,            \* app: the lru_cache of geocode_institution: argument -> result
    geocoded,       \* the strings given to geolocator.geocode so far, in order
    geoLast,        \* the last geocode_institution call: argument, result, effects
    geoFirst,       \* stripped institution -> the result of its first call
    nGeoCalls,      \* direct geocode_institution calls made so far
    author_cache,   \* api: the dict author_cache: author name -> affiliation
    pc,             \* where the request handler stands
    req,            \* the JSON payload of the request being served
    h,              \* the handler's local variables
    result,         \* the dict `result` of the handler
    response,       \* the response sent: status and JSON body
    ops,            \* upstream operations performed for the current request
    snap,           \* the caches as they were when the request arrived
    nFaults,        \* upstream calls of scholarly that raised so far
    nProfiles       \* author records Google Scholar has served so far

fnVars == <<fnArg, fnRet, fnDone>>

geoVars == <<geocode_cache, lru, geocoded, geoLast, geoFirst>>

reqVars == <<author_cache, pc, req, h, result, response, ops, snap, nFaults,
            nProfiles>>

vars == <<fnArg, fnRet, fnDone, variant, geocode_cache, lru, geocoded, geoLast,
          geoFirst, nGeoCalls, author_cache, pc, req, h, result, response, ops,
          snap, nFaults, nProfiles>>

-----------------------------------------------------------------------------
(* Values *)

None == <<"None">>

Unset == <<"Unset">>

\* None where the code expects a dict (a record of the model)
NoCoords == [none |-> TRUE]

\* geoLast before any geocode_institution call
NoCall == [none |-> TRUE, repeat |-> FALSE]

\* the dict with no entries
EmptyMap == [k \in {} |-> None]

\* d with d[k] = v set
Put(d, k, v) == [x \in DOMAIN d \cup {k} |-> IF x = k THEN v ELSE d[x]]

\* the pure-function variables, where no pure function is under study
FnIdle == fnArg = Unset /\ fnRet = Unset /\ fnDone = FALSE

\* the process state at import
ProcessStart ==
    /\ geocode_cache = EmptyMap
    /\ lru = EmptyMap
    /\ geocoded = << >>
    /\ geoLast = NoCall
    /\ geoFirst = EmptyMap

\* no upstream operation performed
ZeroOps == [proxy |-> 0, author |-> 0, fill |-> 0, citedby |-> 0, next |-> 0,
            search |-> 0, geocode |-> 0, faults |-> 0]

\* the request variables while no request has arrived
NoRequest ==
    /\ author_cache = EmptyMap
    /\ pc = "idle"
    /\ req = [none |-> TRUE]
    /\ h = [none |-> TRUE]
    /\ result = [none |-> TRUE]
    /\ response = [none |-> TRUE]
    /\ ops = ZeroOps
    /\ snap = [geocode_cache |-> EmptyMap, author_cache |-> EmptyMap]
    /\ nFaults = 0
    /\ nProfiles = 0

\* a process in which no request is served
NoProcess == variant = "none" /\ ProcessStart /\ nGeoCalls = 0 /\ NoRequest

-----------------------------------------------------------------------------
(* Characters *)

LowerSeq == <<"a","b","c","d","e","f","g","h","i","j","k","l","m",
              "n","o","p","q","r","s","t","u","v","w","x","y","z">>

UpperSeq == <<"A","B","C","D","E","F","G","H","I","J","K","L","M",
              "N","O","P","Q","R","S","T","U","V","W","X","Y","Z">>

Range(f) == {f[k] : k \in DOMAIN f}

Digits == {"0","1","2","3","4","5","6","7","8","9"}

Letters == Range(LowerSeq) \cup Range(UpperSeq)

\* the character class [a-zA-Z0-9_-]
IdChars == Letters \cup Digits \cup {"_", "-"}

\* \w on str patterns, restricted to ASCII
WordChars == Letters \cup Digits \cup {"_"}

\* what str.strip() removes
Whitespace == {" ", "\t", "\n", "\r", "\f"}

\* the characters that occur in the modelled inputs
Alphabet == IdChars \cup Whitespace \cup {"=", "?", "&", "/", ":", ".", ";", ",", "@"}

\* str.lower() on one character (re.IGNORECASE compares case-folded characters)
Lower(c) ==
    IF \E k \in DOMAIN UpperSeq : UpperSeq[k] = c
    THEN LowerSeq[CHOOSE k \in DOMAIN UpperSeq : UpperSeq[k] = c]
    ELSE c

-----------------------------------------------------------------------------
(* A backtracking matcher for the regular expressions of the code.         *)
(* A pattern is a record with a tag t; Match returns, in the order in      *)
(* which a backtracking engine tries them, the ways the pattern matches s  *)
(* from index i: the index after the match and group 1's span.             *)

Lit(str) == [t |-> "lit", s |-> str, ci |-> FALSE]

LitCI(str) == [t |-> "lit", s |-> str, ci |-> TRUE]

OneOf(set) == [t |-> "set", set |-> set]

Dot == OneOf(Alphabet \ {"\n"})

WordB == [t |-> "wb"]

Cat(l, r) == [t |-> "cat", l |-> l, r |-> r]

Alt(l, r) == [t |-> "alt", l |-> l, r |-> r]

\* c* and c*? for a character class c (the only starred items of the code):
\* greedy tries the longest run first, lazy the shortest
Star(c) == [t |-> "star", set |-> c.set, greedy |-> TRUE]

LazyStar(c) == [t |-> "star", set |-> c.set, greedy |-> FALSE]

Plus(c) == Cat(c, Star(c))

Group(r) == [t |-> "group", r |-> r]

RECURSIVE ConcatAll(_)
ConcatAll(ss) ==
    IF ss = << >> THEN << >> ELSE Head(ss) \o ConcatAll(Tail(ss))

Least(S) == CHOOSE i \in S : \A j \in S : i <= j

\* the index after the longest run of characters of set that starts at i
RunEnd(s, i, set) ==
    Least({j \in i..(Len(s) + 1) : j = Len(s) + 1 \/ s[j] \notin set})

IsWordAt(s, i) == i >= 1 /\ i <= Len(s) /\ s[i] \in WordChars

\* \b between s[i-1] and s[i]
AtWordBoundary(s, i) == IsWordAt(s, i - 1) # IsWordAt(s, i)

SameChar(a, b, ci) == IF ci THEN Lower(a) = Lower(b) ELSE a = b

LitAt(s, i, lit, ci) ==
    /\ i + Len(lit) - 1 <= Len(s)
    /\ \A k \in 1..Len(lit) : SameChar(s[i + k - 1], lit[k], ci)

RECURSIVE Match(_, _, _, _)
Match(re, s, i, g) ==
    CASE re.t = "lit" ->
            IF LitAt(s, i, re.s, re.ci)
            THEN << [pos |-> i + Len(re.s), g |-> g] >> ELSE << >>
      [] re.t = "set" ->
            IF i <= Len(s) /\ s[i] \in re.set
            THEN << [pos |-> i + 1, g |-> g] >> ELSE << >>
      [] re.t = "wb" ->
            IF AtWordBoundary(s, i) THEN << [pos |-> i, g |-> g] >> ELSE << >>
      [] re.t = "cat" ->
            LET ls == Match(re.l, s, i, g)
            IN  ConcatAll([k \in 1..Len(ls) |-> Match(re.r, s, ls[k].pos, ls[k].g)])
      [] re.t = "alt" ->
            Match(re.l, s, i, g) \o Match(re.r, s, i, g)
      [] re.t = "star" ->
            LET end == RunEnd(s, i, re.set)
                n == end - i
            IN  IF re.greedy
                THEN [k \in 1..(n + 1) |-> [pos |-> end - (k - 1), g |-> g]]
                ELSE [k \in 1..(n + 1) |-> [pos |-> i + (k - 1), g |-> g]]
      [] re.t = "group" ->
            LET ms == Match(re.r, s, i, g)
            IN  [k \in 1..Len(ms) |-> [pos |-> ms[k].pos, g |-> <<i, ms[k].pos>>]]

NoMatch == [found |-> FALSE]

\* re.search from index `from`: the first start, left to right, at which the
\* pattern matches, with the engine's first way of matching there
SearchFrom(re, s, from) ==
    LET starts == {i \in from..(Len(s) + 1) : Match(re, s, i, <<0, 0>>) # << >>}
    IN  IF starts = {} THEN NoMatch
        ELSE LET i == Least(starts)
                 m == Match(re, s, i, <<0, 0>>)[1]
             IN  [found |-> TRUE, start |-> i, pos |-> m.pos, g |-> m.g]

Search(re, s) == SearchFrom(re, s, 1)

\* match.group(1)
Group1(s, m) == SubSeq(s, m.g[1], m.g[2] - 1)

\* the pieces of s between the matches of re (re.split, no empty matches)
RECURSIVE ReSplitFrom(_, _, _)
ReSplitFrom(re, s, from) ==
    LET m == SearchFrom(re, s, from)
    IN  IF m.found /\ m.pos > m.start
        THEN << SubSeq(s, from, m.start - 1) >> \o ReSplitFrom(re, s, m.pos)
        ELSE << SubSeq(s, from, Len(s)) >>

ReSplit(re, s) == ReSplitFrom(re, s, 1)

\* s with every match of re removed (re.sub(re, '', s), no empty matches)
RECURSIVE ReRemoveFrom(_, _, _)
ReRemoveFrom(re, s, from) ==
    LET m == SearchFrom(re, s, from)
    IN  IF m.found /\ m.pos > m.start
        THEN SubSeq(s, from, m.start - 1) \o ReRemoveFrom(re, s, m.pos)
        ELSE SubSeq(s, from, Len(s))

ReRemove(re, s) == ReRemoveFrom(re, s, 1)

RECURSIVE LStrip(_)
LStrip(s) ==
    IF s # << >> /\ Head(s) \in Whitespace THEN LStrip(Tail(s)) ELSE s

RECURSIVE RStrip(_)
RStrip(s) ==
    IF s # << >> /\ s[Len(s)] \in Whitespace
    THEN RStrip(SubSeq(s, 1, Len(s) - 1)) ELSE s

\* str.strip()
Strip(s) == RStrip(LStrip(s))

-----------------------------------------------------------------------------
(* extract_author_id *)

StrUser == <<"u","s","e","r","=">>

StrCitations == <<"c","i","t","a","t","i","o","n","s","?">>

\* r'user=([a-zA-Z0-9_-]+)'
PatUser == Cat(Lit(StrUser), Group(Plus(OneOf(IdChars))))

\* r'citations\?.*user=([a-zA-Z0-9_-]+)'
PatCitationsUser == Cat(Lit(StrCitations), Cat(Star(Dot), PatUser))

RECURSIVE FirstGroup(_, _)
FirstGroup(patterns, url) ==
    IF patterns = << >> THEN None
    ELSE LET m == Search(Head(patterns), url)
         IN  IF m.found THEN Group1(url, m) ELSE FirstGroup(Tail(patterns), url)

\* a first pattern that takes any characters after 'user='
extract_author_id_loose(url) ==
    FirstGroup(<< Cat(Lit(StrUser), Group(Plus(Dot))) >>, url)

\* the patterns tried in the other order
extract_author_id_swapped(url) == FirstGroup(<<PatCitationsUser, PatUser>>, url)

extract_author_id_api(url) == FirstGroup(<<PatUser, PatCitationsUser>>, url)

extract_author_id_app(url) == FirstGroup(<<PatUser, PatCitationsUser>>, url)

-----------------------------------------------------------------------------
(* Inputs of extract_author_id: concatenations of at most MaxUrlChunks     *)
(* chunks.                                                                 *)

MaxUrlChunks == 3

UrlChunks ==
    { StrUser, StrCitations,
      <<"u","s","e","r","=","a","B">>,
      <<"&","u","s","e","r","=","_","-","7">>,
      <<"u","s","e","r">>, <<"=">>, <<"x">>, <<"&">>, <<"\n">> }

RECURSIVE Concats(_, _)
Concats(chunks, n) ==
    IF n = 0 THEN { << >> }
    ELSE LET shorter == Concats(chunks, n - 1)
         IN  shorter \cup { a \o c : a \in shorter, c \in chunks }

Urls == Concats(UrlChunks, MaxUrlChunks)

InitExtract ==
    /\ fnArg \in Urls
    /\ fnRet = Unset
    /\ fnDone = FALSE
    /\ NoProcess

CallExtract ==
    /\ ~fnDone
    /\ fnRet' = [api |-> extract_author_id_api(fnArg),
                 app |-> extract_author_id_app(fnArg)]
    /\ fnDone' = TRUE
    /\ UNCHANGED <<fnArg, variant, geoVars, nGeoCalls, reqVars>>

NextExtract == CallExtract

SpecExtract == InitExtract /\ [][NextExtract]_vars

\* the indices at which 'user=' occurs followed by at least one id character
UserOccurrences(s) ==
    { i \in 1..Len(s) :
        /\ i + 5 <= Len(s)
        /\ SubSeq(s, i, i + 4) = StrUser
        /\ s[i + 5] \in IdChars }

\* C9: extract_author_id returns the maximal run of id characters right after
\* the leftmost 'user=' that is followed by one, and None exactly when there
\* is no such occurrence; the second pattern never changes the result, and
\* the api and app functions agree.
C9_ExtractLeftmostMaximalRun ==
    fnDone =>
        LET occ == UserOccurrences(fnArg)
            r == fnRet.api
        IN  /\ (r = None) <=> (occ = {})
            /\ occ # {} =>
                  LET from == Least(occ) + 5
                  IN  /\ Len(r) >= 1
                      /\ from + Len(r) - 1 <= Len(fnArg)
                      /\ r = SubSeq(fnArg, from, from + Len(r) - 1)
                      /\ \A k \in 1..Len(r) : r[k] \in IdChars
                      /\ \/ from + Len(r) > Len(fnArg)
                         \/ fnArg[from + Len(r)] \notin IdChars
            /\ r = FirstGroup(<<PatUser>>, fnArg)
            /\ Search(PatCitationsUser, fnArg).found => Search(PatUser, fnArg).found
            /\ fnRet.app = r

\* a URL on which the second pattern alone would have captured another id
C9_Witness ==
    /\ fnDone
    /\ fnRet.api # None
    /\ Cardinality(UserOccurrences(fnArg)) >= 2
    /\ Search(PatCitationsUser, fnArg).found
    /\ FirstGroup(<<PatCitationsUser>>, fnArg) # fnRet.api

-----------------------------------------------------------------------------
(* clean_affiliation (api) *)

\* r'[;,]|\band\b'
PatDelimiters ==
    Alt(OneOf({";", ","}), Cat(WordB, Cat(Lit(<<"a","n","d">>), WordB)))

\* r'.*?\bat\b|.*?@' with re.IGNORECASE
PatTitlePrefix ==
    Alt(Cat(LazyStar(Dot), Cat(WordB, Cat(LitCI(<<"a","t">>), WordB))),
        Cat(LazyStar(Dot), Lit(<<"@">>)))

TitleWords ==
    << <<"d","i","r","e","c","t","o","r">>, <<"m","a","n","a","g","e","r">>, <<"c","h","a","i","r">>, <<"e","n","g","i","n","e","e","r">>, <<"p","r","o","f","e","s","s","o","r">>,
       <<"l","e","c","t","u","r","e","r">>, <<"p","h","d">>, <<"p","o","s","t","d","o","c">>, <<"s","t","u","d","e","n","t">>, <<"r","e","s","e","a","r","c","h","e","r">> >>

RECURSIVE AnyOfCI(_)
AnyOfCI(words) ==
    IF Len(words) = 1 THEN LitCI(words[1])
    ELSE Alt(LitCI(Head(words)), AnyOfCI(Tail(words)))

\* r'\b(director|manager|...|researcher)\b' with re.IGNORECASE
PatTitleWord == Cat(WordB, Cat(Group(AnyOfCI(TitleWords)), WordB))

\* the bound of `len(cleaned) > 3`
MinCleanedLen == 3

\* the loop over the parts: the first part that, with its title prefix
\* removed, holds no title word and is long enough; else the stripped input
RECURSIVE FirstMeaningfulPart(_, _)
FirstMeaningfulPart(parts, affiliation_string) ==
    IF parts = << >> THEN Strip(affiliation_string)
    ELSE LET part == Strip(Head(parts))
             cleaned == Strip(ReRemove(PatTitlePrefix, part))
         IN  IF Search(PatTitleWord, cleaned).found
             THEN FirstMeaningfulPart(Tail(parts), affiliation_string)
             ELSE IF Len(cleaned) > MinCleanedLen
                  THEN cleaned
                  ELSE FirstMeaningfulPart(Tail(parts), affiliation_string)

clean_affiliation(affiliation_string) ==
    IF affiliation_string = None \/ affiliation_string = << >>
    THEN << >>
    ELSE FirstMeaningfulPart(ReSplit(PatDelimiters, affiliation_string),
                             affiliation_string)

-----------------------------------------------------------------------------
(* Inputs of clean_affiliation *)

StrAt == <<" ","a","t"," ">>

AffTitles ==
    { <<"P","r","o","f","e","s","s","o","r">>, <<"P","r","o","f",".">>, <<"P","h","D"," ","s","t","u","d","e","n","t">>, <<"D","r">>,
      <<"H","e","a","d"," ","o","f"," ","L","a","b">>, <<"R","e","s","e","a","r","c","h"," ","S","c","i","e","n","t","i","s","t">> }

AffInstitutions ==
    { <<"M","I","T">>, <<"E","T","H">>, <<"U","C","L","A">>, <<"C","M","U"," ">>, <<"Y","a","l","e">>, <<"S","t","a","n","f","o","r","d"," ","U","n","i","v","e","r","s","i","t","y">>,
      <<"E","T","H"," ","Z","u","r","i","c","h">>, <<"O","x","f","o","r","d">>, <<" ","U"," ","o","f"," ","T">>, <<"K","U">>, <<"B","a","n","d"," ","L","a","b">>,
      <<"S","t","u","d","e","n","t"," ","U","n","i","o","n">>, <<"A","T","&","T"," ","L","a","b","s">>, <<"x","@","y",".","o","r","g">>, <<"R","e","s","e","a","r","c","h"," ","a","t"," ","G","o","o","g","l","e">>,
      <<"T","e","x","a","s"," ","A"," ","a","n","d"," ","M">>, <<"I","n","s","t","."," ","o","f"," ","T","e","c","h",","," ","D","e","l","h","i">> }

AffOthers ==
    { None, << >>, <<" "," "," ">>, <<"M","I","T">>, <<"S","t","a","n","f","o","r","d"," ","U","n","i","v","e","r","s","i","t","y">>, <<"P","r","o","f","e","s","s","o","r">>,
      <<"P","r","o","f","e","s","s","o","r",","," ","S","t","a","n","f","o","r","d"," ","U","n","i","v","e","r","s","i","t","y">>, <<"a","l","i","c","e","@","c","s",".","y","a","l","e",".","e","d","u">>,
      <<"P","r","o","f","e","s","s","o","r"," ","o","f"," ","P","h","y","s","i","c","s",";"," ","H","a","r","v","a","r","d"," ","U","n","i","v","e","r","s","i","t","y">>,
      <<"P","h","D"," ","s","t","u","d","e","n","t"," ","a","n","d"," ","r","e","s","e","a","r","c","h","e","r">>, <<"E","n","g","i","n","e","e","r"," ","A","T"," ","G","o","o","g","l","e"," ","R","e","s","e","a","r","c","h">> }

AffInputs ==
    { t \o StrAt \o i : t \in AffTitles, i \in AffInstitutions } \cup AffOthers

InitClean ==
    /\ fnArg \in AffInputs
    /\ fnRet = Unset
    /\ fnDone = FALSE
    /\ NoProcess

CallClean ==
    /\ ~fnDone
    /\ fnRet' = clean_affiliation(fnArg)
    /\ fnDone' = TRUE
    /\ UNCHANGED <<fnArg, variant, geoVars, nGeoCalls, reqVars>>

NextClean == CallClean

SpecClean == InitClean /\ [][NextClean]_vars

HasChar(s, set) == \E k \in 1..Len(s) : s[k] \in set

\* the word w (bounded by \b on both sides) occurs in s, in any case
HasWordCI(s, w) ==
    \E k \in 1..Len(s) :
        /\ k + Len(w) - 1 <= Len(s)
        /\ \A j \in 1..Len(w) : Lower(s[k + j - 1]) = w[j]
        /\ AtWordBoundary(s, k)
        /\ AtWordBoundary(s, k + Len(w))

\* an institution part the claim covers: no title word, no word 'at', no '@'
PlainInstitution(i) ==
    /\ ~HasChar(i, {"@"})
    /\ ~HasWordCI(i, <<"a","t">>)
    /\ \A k \in 1..Len(TitleWords) : ~HasWordCI(i, TitleWords[k])

\* an input the claim covers: no ';', no ',' and no word 'and'
NoDelimiter(s) ==
    /\ ~HasChar(s, {";", ","})
    /\ ~(\E k \in 1..Len(s) :
            /\ k + 2 <= Len(s)
            /\ SubSeq(s, k, k + 2) = <<"a","n","d">>
            /\ AtWordBoundary(s, k)
            /\ AtWordBoundary(s, k + 3))

\* C10: for every input '<title> at <institution>' without ';', ',' or the
\* word 'and', whose institution part holds no title word, no word 'at' and
\* no '@', clean_affiliation returns the stripped institution part; for an
\* empty or None input it returns ''.
C10_CleanIsolatesInstitution ==
    fnDone =>
        /\ (fnArg = None \/ fnArg = << >>) => fnRet = << >>
        /\ \A t \in AffTitles, i \in AffInstitutions :
              (fnArg = t \o StrAt \o i /\ NoDelimiter(fnArg) /\ PlainInstitution(i))
                  => fnRet = Strip(i)

\* C10 holds where the stripped institution part has more than three
\* characters; this is the part of the claim the code satisfies.
C10_LongInstitutionIsolated ==
    fnDone =>
        /\ (fnArg = None \/ fnArg = << >>) => fnRet = << >>
        /\ \A t \in AffTitles, i \in AffInstitutions :
              (/\ fnArg = t \o StrAt \o i
               /\ NoDelimiter(fnArg)
               /\ PlainInstitution(i)
               /\ Len(Strip(i)) > MinCleanedLen)
                  => fnRet = Strip(i)

-----------------------------------------------------------------------------
(* geocode_institution *)

\* what geolocator.geocode may do: return a location, return None, or raise
GeoOutcomes ==
    { [kind |-> "location", lat |-> 42, lng |-> 71, address |-> "first"],
      [kind |-> "none"],
      [kind |-> "raise", exc |-> "GeocoderTimedOut"],
      [kind |-> "raise", exc |-> "Exception"] }

\* `not institution or institution.strip() == ''`
IsBlank(institution) ==
    institution = None \/ institution = << >> \/ Strip(institution) = << >>

\* the try block after a cache miss: what is cached and returned, given what
\* the geocoder did.  A mutant of it that leaves failures uncached:
GeocodeMissUncached(cache, institution, outcome) ==
    IF outcome.kind = "location"
    THEN LET coords == [lat |-> outcome.lat, lng |-> outcome.lng,
                        address |-> outcome.address]
         IN  [cache |-> Put(cache, institution, coords), ret |-> coords]
    ELSE [cache |-> cache, ret |-> NoCoords]

GeocodeMiss(cache, institution, outcome) ==
    IF outcome.kind = "location"
    THEN LET coords == [lat |-> outcome.lat, lng |-> outcome.lng,
                        address |-> outcome.address]
         IN  [cache |-> Put(cache, institution, coords), ret |-> coords]
    ELSE [cache |-> Put(cache, institution, NoCoords), ret |-> NoCoords]

\* the body of geocode_institution, the same in both modules but for the
\* length of the sleep: the new cache, the result, and whether it slept and
\* called the geocoder
GeocodeBody(cache, institution, outcome) ==
    IF IsBlank(institution)
    THEN [cache |-> cache, ret |-> NoCoords, called |-> FALSE]
    ELSE LET key == Strip(institution)
         IN  IF key \in DOMAIN cache
             THEN [cache |-> cache, ret |-> cache[key], called |-> FALSE]
             ELSE LET miss == GeocodeMiss(cache, key, outcome)
                  IN  [cache |-> miss.cache, ret |-> miss.ret, called |-> TRUE]

\* the stripped string a call is about ('' for a blank or None argument)
GeoKey(institution) == IF IsBlank(institution) THEN << >> ELSE Strip(institution)

\* One call geocode_institution(institution).  In app the function is wrapped
\* in lru_cache(maxsize=1000), keyed by the argument as given; the model has
\* far fewer than 1000 distinct arguments, so nothing is ever evicted.
geocode_institution(institution, outcome) ==
    LET hit == variant = "app" /\ institution \in DOMAIN lru
        body == GeocodeBody(geocode_cache, institution, outcome)
        ret == IF hit THEN lru[institution] ELSE body.ret
        called == ~hit /\ body.called
        key == GeoKey(institution)
    IN  /\ geocode_cache' = IF hit THEN geocode_cache ELSE body.cache
        /\ lru' = IF variant = "app" /\ ~hit THEN Put(lru, institution, ret) ELSE lru
        /\ geocoded' = IF called THEN Append(geocoded, key) ELSE geocoded
        /\ geoLast' = [arg |-> institution, key |-> key, ret |-> ret,
                       called |-> called, slept |-> called,
                       repeat |-> key \in DOMAIN geoFirst]
        /\ geoFirst' = IF key \in DOMAIN geoFirst THEN geoFirst
                       ELSE Put(geoFirst, key, ret)

\* the result of the call just made
GeoRet == geoLast'.ret

-----------------------------------------------------------------------------
(* Sequential geocode_institution calls in one process *)

MaxGeoCalls == 4

GeoInputs ==
    { None, << >>, <<" ">>, <<"M","I","T">>, <<" ","M","I","T">>, <<"M","I","T","\n">>, <<"E","T","H"," ","Z","u","r","i","c","h">>,
      <<"E","T","H"," ","Z","u","r","i","c","h"," "," ">> }

InitGeocode ==
    /\ FnIdle
    /\ variant \in {"api", "app"}
    /\ ProcessStart
    /\ nGeoCalls = 0
    /\ NoRequest

CallGeocode ==
    /\ nGeoCalls < MaxGeoCalls
    /\ \E institution \in GeoInputs, outcome \in GeoOutcomes :
          geocode_institution(institution, outcome)
    /\ nGeoCalls' = nGeoCalls + 1
    /\ UNCHANGED <<fnVars, variant, reqVars>>

NextGeocode == CallGeocode

SpecGeocode == InitGeocode /\ [][NextGeocode]_vars

Count(seq, x) == Cardinality({k \in 1..Len(seq) : seq[k] = x})

\* C5: over sequential geocode_institution calls the geocoder is called at
\* most once per stripped institution string, whatever the first call did,
\* and every later call with the same stripped string returns the first
\* call's value without sleeping and without calling the geocoder.
C5_GeocoderOncePerInstitution ==
    /\ \A k \in Range(geocoded) : Count(geocoded, k) <= 1
    /\ (geoLast # NoCall /\ geoLast.repeat) =>
          /\ geoLast.ret = geoFirst[geoLast.key]
          /\ ~geoLast.called
          /\ ~geoLast.slept

\* a repeated call, spelled with other whitespace, of an institution whose
\* first call failed, after another institution was geocoded to coordinates
C5_Witness ==
    /\ geoLast # NoCall
    /\ geoLast.repeat
    /\ geoLast.arg # geoLast.key
    /\ geoLast.key # << >>
    /\ geoLast.ret = NoCoords
    /\ Count(geocoded, geoLast.key) = 1
    /\ \E k \in DOMAIN geoFirst : geoFirst[k] # NoCoords /\ Count(geocoded, k) = 1

-----------------------------------------------------------------------------
(* Python built-ins used by the handlers *)

Min(a, b) == IF a <= b THEN a ELSE b

Max(a, b) == IF a >= b THEN a ELSE b

\* seq[:n], n of either sign
SliceTo(seq, n) ==
    IF n >= 0 THEN SubSeq(seq, 1, Min(n, Len(seq)))
    ELSE SubSeq(seq, 1, Max(Len(seq) + n, 0))

\* dict.get(key, default)
Get(d, key, default) == IF key \in DOMAIN d THEN d[key] ELSE default

\* str.split(sep)
RECURSIVE SplitFrom(_, _, _)
SplitFrom(s, sep, from) ==
    LET at == {i \in from..(Len(s) - Len(sep) + 1) :
                  SubSeq(s, i, i + Len(sep) - 1) = sep}
    IN  IF at = {} THEN << SubSeq(s, from, Len(s)) >>
        ELSE << SubSeq(s, from, Least(at) - 1) >>
                 \o SplitFrom(s, sep, Least(at) + Len(sep))

SplitOn(s, sep) == SplitFrom(s, sep, 1)

\* where sorted(..., reverse=True) puts pub among the publications sorted so
\* far: after those with at least as many citations (the sort is stable)
InsertByCitations(sorted, pub) ==
    LET n == Cardinality({k \in 1..Len(sorted) :
                             sorted[k].num_citations >= pub.num_citations})
    IN  SubSeq(sorted, 1, n) \o << pub >> \o SubSeq(sorted, n + 1, Len(sorted))

\* sorted(publications, key=lambda x: x.get('num_citations', 0), reverse=True)
RECURSIVE SortedByCitations(_)
SortedByCitations(pubs) ==
    IF pubs = << >> THEN << >>
    ELSE InsertByCitations(SortedByCitations(SubSeq(pubs, 1, Len(pubs) - 1)),
                           pubs[Len(pubs)])

-----------------------------------------------------------------------------
(* What Google Scholar holds: three author profiles, the papers citing     *)
(* their publications, and the profiles found by name.                     *)

\* the most publications a profile holds, and the longest citation stream
MaxPubs == 7

MaxStream == 12

DigitSeq == <<"1","2","3","4","5","6","7","8","9">>

StrAnd == <<" ","a","n","d"," ">>

\* the co-authors of the profile "deep", all of one institution
DeepNames == << <<"m","1">>, <<"m","2">>, <<"m","3">>, <<"m","4">>, <<"m","5">>, <<"m","6">>, <<"m","7">> >>

Publication(id, n) ==
    [id |-> id, title |-> <<"T">> \o id, year |-> "2020", num_citations |-> n]

AuthorDB ==
    [id \in { <<"s","m">>, <<"w","i","d","e">>, <<"d","e","e","p">> } |->
        CASE id = <<"s","m">> ->
               [name |-> "S", affiliation |-> "Yale", citedby |-> 7, hindex |-> 2,
                publications |-> << Publication(<<"p","1">>, 2), Publication(<<"p","2">>, 0),
                                    Publication(<<"p","3">>, 5) >>]
          [] id = <<"w","i","d","e">> ->
               [name |-> "W", affiliation |-> "ETH", citedby |-> 4, hindex |-> 1,
                publications |->
                    [k \in 1..MaxPubs |->
                        Publication(<<"q", DigitSeq[((k - 1) % 9) + 1]>>, k % 2)]]
          [] id = <<"d","e","e","p">> ->
               [name |-> "D", affiliation |-> "MIT", citedby |-> 40, hindex |-> 1,
                publications |-> << Publication(<<"d","1">>, 40) >>]]

\* a citing paper: its title, and the author string where the module looks
\* for it (None: the key is absent)
Citing(title, author) == [title |-> title, author |-> author]

\* scholarly.citedby(publication), as the list the iterator yields
CitedBy(pub) ==
    CASE pub.id = <<"p","1">> ->
            << Citing("c1", <<"n","1"," ","a","n","d"," ","n","2">>), Citing("c2", <<" ","n","2"," ">>) >>
      [] pub.id = <<"p","3">> ->
            << Citing("c3", <<"x">>), Citing("c4", << >>), Citing("c5", None),
               Citing("c6", <<"n","8"," ","a","n","d"," ","n","1">>), Citing("c7", <<"n","7">>) >>
      [] pub.id = <<"d","1">> ->
            [k \in 1..MaxStream |->
                Citing("cd", DeepNames[((k - 1) % Len(DeepNames)) + 1]
                                 \o StrAnd \o <<"n","1">>)]
      [] pub.id[1] = "q" /\ pub.num_citations > 0 ->
            << Citing("cq", <<"n","1">>) >>
      [] OTHER -> << >>

\* next(scholarly.search_author(name), None): the first profile found, as a
\* dict that may lack 'affiliation', or no profile
SearchAuthor(name) ==
    CASE name \in Range(DeepNames) \cup { <<"n","1">> } ->
            [found |-> TRUE, affiliation |-> <<"Y","a","l","e"," ","U","n","i","v","e","r","s","i","t","y">>]
      [] name = <<"n","2">> -> [found |-> TRUE, affiliation |-> <<" ","Y","a","l","e"," ","U","n","i","v","e","r","s","i","t","y">>]
      [] name = <<"n","7">> -> [found |-> TRUE, affiliation |-> <<"P","r","o","f","e","s","s","o","r"," ","a","t"," ","E","T","H"," ","Z","u","r","i","c","h">>]
      [] name = <<"x">> -> [found |-> TRUE]
      [] OTHER -> [found |-> FALSE]

\* scholarly.fill(pub): the publication with its details
Fill(pub) == [pub EXCEPT !.year = "2021"]

-----------------------------------------------------------------------------
(* Requests *)

\* how many upstream calls of scholarly after the author fetch may raise in
\* one process, and how many author records Google Scholar serves to it
\* before it blocks every further fetch
MaxFaults == 2

MaxProfiles == 1

ReqUrls ==
    { << >>, <<"c","i","t","a","t","i","o","n","s","?","u","s","e","r","=","&","h","l","=","e","n">>,
      <<"c","i","t","a","t","i","o","n","s","?","u","s","e","r","=","s","m">>, <<"u","s","e","r","=","w","i","d","e","&","h","l","=","e","n">>, <<"u","s","e","r","=","d","e","e","p">>, <<"u","s","e","r","=","z","z">> }

Limits == { <<-1, 1>>, <<7, -1>>, <<2, 12>> }

Payloads ==
    { [url |-> u] : u \in ReqUrls }
      \cup { [url |-> u, max_papers |-> l[1], max_citations |-> l[2]] :
                u \in ReqUrls, l \in Limits }
      \cup { [max_papers |-> 2] }

\* the caps and defaults of the api module
ApiDefaultMaxPapers == 3

ApiDefaultMaxCitations == 5

MaxPapersCap == 5

MaxCitationsCap == 10

\* the defaults of the app module
AppDefaultMaxPapers == 5

AppDefaultMaxCitations == 10

\* app: authors[:3] of a citing paper, publications[:10] of quick_analyze
AppAuthorsPerCitation == 3

QuickPublications == 10

\* info['authors'][:5]
MaxLocationAuthors == 5

\* max_papers as the handler computes it from the payload
MaxPapersOf(data) ==
    IF variant = "api"
    THEN Min(Get(data, "max_papers", ApiDefaultMaxPapers), MaxPapersCap)
    ELSE Get(data, "max_papers", AppDefaultMaxPapers)

\* max_citations_per_paper as api computes it, without the cap
UncappedMaxCitations(data) == Get(data, "max_citations", ApiDefaultMaxCitations)

ApiMaxCitations(data) ==
    Min(Get(data, "max_citations", ApiDefaultMaxCitations), MaxCitationsCap)

MaxCitationsOf(data) ==
    IF variant = "api" THEN ApiMaxCitations(data)
    ELSE Get(data, "max_citations", AppDefaultMaxCitations)

ExtractAuthorId(url) ==
    IF variant = "api" THEN extract_author_id_api(url) ELSE extract_author_id_app(url)

\* `not author_id`
Falsy(str) == str = None \/ str = << >>

NoValue == [none |-> TRUE]

\* the handler's locals when it starts
HandlerStart(data) ==
    [max_papers |-> MaxPapersOf(data),
     max_citations |-> MaxCitationsOf(data),
     author_id |-> ExtractAuthorId(Get(data, "url", << >>)),
     fetched |-> "no",
     publications |-> << >>, i |-> 0, pub_filled |-> NoValue,
     citing_papers |-> << >>, j |-> 0,
     citing |-> << >>, pending |-> << >>,
     count |-> 0, pos |-> 0,
     all_citing_authors |-> << >>, affiliations_map |-> << >>,
     locations |-> << >>, g |-> 0,
     perPub |-> << >>]

ErrorBody(msg) == [error |-> msg]

\* the status of the answer when get_author_info returns None: the same in
\* both modules (a mutant), and as the modules have it
AuthorErrorStatusSame == 404

AuthorErrorStatus == IF variant = "api" THEN 503 ELSE 404

-----------------------------------------------------------------------------
(* The request handlers: analyze_scholar of both modules and quick_analyze *)
(* of app, one action per upstream call or loop step.                      *)

ResultKeys == {"author", "publications", "citing_authors", "locations"}

PubInfo(pub) ==
    [title |-> pub.title, year |-> pub.year, citations |-> pub.num_citations]

\* the dict `result` as first built from the author record
ResultOf(author) ==
    [author |-> [name |-> author.name, affiliation |-> author.affiliation,
                 citations |-> author.citedby, h_index |-> author.hindex],
     publications |-> << >>,
     citing_authors |-> << >>,
     locations |-> << >>]

\* an upstream call of scholarly may raise while the process has faults left
CanFault == nFaults < MaxFaults

\* whether the call site sits in a try block that catches the exception:
\* every one does.  A mutant in which get_publication_details has none:
CaughtButFill(site) == site # "fill"

Caught(site) == TRUE

\* the answer Flask gives when the handler raises
Crash == [status |-> 500, body |-> ErrorBody("Internal Server Error")]

Bump(counter) == [ops EXCEPT ![counter] = @ + 1]

BumpFault(counter) == [ops EXCEPT ![counter] = @ + 1, !.faults = @ + 1]

\* a request arrives: the payload is read and the URL is validated
Receive(endpoint, data) ==
    /\ pc \in {"idle", "done"}
    /\ endpoint = "quick-analyze" => variant = "app"
    /\ req' = [endpoint |-> endpoint, json |-> data]
    /\ h' = HandlerStart(data)
    /\ ops' = ZeroOps
    /\ snap' = [geocode_cache |-> geocode_cache, author_cache |-> author_cache]
    /\ result' = NoValue
    /\ IF Falsy(h'.author_id)
       THEN /\ response' = [status |-> 400,
                            body |-> ErrorBody("Invalid Google Scholar URL")]
            /\ pc' = "done"
       ELSE /\ response' = NoValue
            /\ pc' = IF variant = "api" THEN "proxy" ELSE "author"
    /\ UNCHANGED <<nProfiles, fnVars, variant, geoVars, nGeoCalls, author_cache, nFaults>>

\* api: setup_proxy(), whose outcome the handler ignores
SetupProxy ==
    /\ pc = "proxy"
    /\ ops' = Bump("proxy")
    /\ pc' = "author"
    /\ UNCHANGED <<nProfiles, fnVars, variant, geoVars, nGeoCalls, author_cache, req, h,
                   result, response, snap, nFaults>>

\* get_author_info returns None: the upstream call raised (no such profile,
\* or Google Scholar blocks the request, which it may do at any time)
AuthorFetchFails ==
    /\ pc = "author"
    /\ ops' = BumpFault("author")
    /\ h' = [h EXCEPT !.fetched = "failed"]
    /\ response' = [status |-> AuthorErrorStatus,
                    body |-> ErrorBody("Could not fetch author information")]
    /\ pc' = "done"
    /\ UNCHANGED <<nProfiles, nFaults, fnVars, variant, geoVars, nGeoCalls, author_cache,
                   req, result, snap>>

\* get_author_info returns the author record; analyze_scholar builds
\* `result` and the list of publications to process
AuthorFetched ==
    /\ pc = "author"
    /\ req.endpoint = "analyze"
    /\ h.author_id \in DOMAIN AuthorDB
    /\ nProfiles < MaxProfiles
    /\ nProfiles' = nProfiles + 1
    /\ LET author == AuthorDB[h.author_id]
           pubs == IF variant = "api"
                   THEN SliceTo(SortedByCitations(author.publications), h.max_papers)
                   ELSE SliceTo(author.publications, h.max_papers)
       IN  /\ result' = ResultOf(author)
           /\ h' = [h EXCEPT !.fetched = "ok", !.publications = pubs, !.i = 1]
    /\ ops' = Bump("author")
    /\ pc' = "pub"
    /\ UNCHANGED <<fnVars, variant, geoVars, nGeoCalls, author_cache, req,
                   response, snap, nFaults>>

\* app: quick_analyze lists the first publications and answers
QuickAnalyze ==
    /\ pc = "author"
    /\ req.endpoint = "quick-analyze"
    /\ h.author_id \in DOMAIN AuthorDB
    /\ nProfiles < MaxProfiles
    /\ nProfiles' = nProfiles + 1
    /\ LET author == AuthorDB[h.author_id]
           pubs == SliceTo(author.publications, QuickPublications)
       IN  /\ result' = [ResultOf(author) EXCEPT
                            !.publications = [k \in 1..Len(pubs) |-> PubInfo(pubs[k])]]
           /\ h' = [h EXCEPT !.fetched = "ok"]
    /\ response' = [status |-> 200, body |-> result']
    /\ ops' = Bump("author")
    /\ pc' = "done"
    /\ UNCHANGED <<fnVars, variant, geoVars, nGeoCalls, author_cache, req,
                   snap, nFaults>>

\* api: get_publication_details(pub), then the publication is listed
ApiFillPublication ==
    /\ pc = "pub" /\ variant = "api"
    /\ h.i <= Len(h.publications)
    /\ \E raised \in BOOLEAN :
          /\ raised => CanFault
          /\ nFaults' = IF raised THEN nFaults + 1 ELSE nFaults
          /\ ops' = IF raised THEN BumpFault("fill") ELSE Bump("fill")
          /\ IF raised /\ ~Caught("fill")
             THEN /\ response' = Crash
                  /\ pc' = "done"
                  /\ UNCHANGED <<h, result>>
             ELSE LET pub == h.publications[h.i]
                      pub_filled == IF raised THEN pub ELSE Fill(pub)
                      pub_info == PubInfo(pub_filled)
                  IN  /\ result' = [result EXCEPT
                                       !.publications = Append(@, pub_info)]
                      /\ response' = response
                      /\ IF pub_info.citations > 0
                         THEN /\ h' = [h EXCEPT !.pub_filled = pub_filled,
                                                !.perPub = Append(@, 0)]
                              /\ pc' = "citedby"
                         ELSE /\ h' = [h EXCEPT !.pub_filled = pub_filled,
                                                !.perPub = Append(@, 0),
                                                !.i = @ + 1]
                              /\ pc' = "pub"
    /\ UNCHANGED <<nProfiles, fnVars, variant, geoVars, nGeoCalls, author_cache, req, snap>>

\* app: the publication is listed as the author record has it
AppListPublication ==
    /\ pc = "pub" /\ variant = "app"
    /\ h.i <= Len(h.publications)
    /\ LET pub == h.publications[h.i]
       IN  /\ result' = [result EXCEPT !.publications = Append(@, PubInfo(pub))]
           /\ IF pub.num_citations > 0
              THEN /\ h' = [h EXCEPT !.perPub = Append(@, 0), !.citing = << >>]
                   /\ pc' = "fill"
              ELSE /\ h' = [h EXCEPT !.perPub = Append(@, 0), !.i = @ + 1]
                   /\ pc' = "pub"
    /\ UNCHANGED <<nProfiles, fnVars, variant, geoVars, nGeoCalls, author_cache, req,
                   response, ops, snap, nFaults>>

\* api: affiliations_map after one citing author (lines 440-448).  A mutant
\* that counts an author only when the name is new:
TrackAffiliationOncePerName(map, affiliation, author_name) ==
    IF Falsy(affiliation) THEN map
    ELSE LET known == \E k \in 1..Len(map) : map[k].affiliation = affiliation
             m == IF known THEN map
                  ELSE Append(map, [affiliation |-> affiliation, count |-> 0,
                                    authors |-> << >>])
         IN  [k \in 1..Len(m) |->
                IF m[k].affiliation = affiliation
                   /\ author_name \notin Range(m[k].authors)
                THEN [m[k] EXCEPT !.count = @ + 1,
                                  !.authors = Append(@, author_name)]
                ELSE m[k]]

\* The dict affiliations_map is a sequence of its entries in insertion order,
\* which is the order in which the handler iterates over it.
TrackAffiliation(map, affiliation, author_name) ==
    IF Falsy(affiliation) THEN map
    ELSE LET known == \E k \in 1..Len(map) : map[k].affiliation = affiliation
             m == IF known THEN map
                  ELSE Append(map, [affiliation |-> affiliation, count |-> 0,
                                    authors |-> << >>])
         IN  [k \in 1..Len(m) |->
                IF m[k].affiliation = affiliation
                THEN [m[k] EXCEPT
                         !.count = @ + 1,
                         !.authors = IF author_name \in Range(@) THEN @
                                     ELSE Append(@, author_name)]
                ELSE m[k]]

\* app: the dict affiliations after one citing author (lines 274-283)
TrackAffiliationApp(map, affiliation, author_name) ==
    IF Falsy(affiliation) THEN map
    ELSE LET known == \E k \in 1..Len(map) : map[k].affiliation = affiliation
             m == IF known THEN map
                  ELSE Append(map, [affiliation |-> affiliation, count |-> 0,
                                    authors |-> << >>])
         IN  [k \in 1..Len(m) |->
                IF m[k].affiliation = affiliation
                THEN [m[k] EXCEPT !.count = @ + 1,
                                  !.authors = Append(@, author_name)]
                ELSE m[k]]

\* app: the handler's loop over the list get_citing_authors returned
RECURSIVE TrackAllApp(_, _)
TrackAllApp(map, citing) ==
    IF citing = << >> THEN map
    ELSE TrackAllApp(TrackAffiliationApp(map, Head(citing).affiliation,
                                         Head(citing).name),
                     Tail(citing))

\* app: get_citing_authors returns `citing`; the handler records the authors
\* and goes on to the next publication
AfterCitingAuthors(citing) ==
    [h EXCEPT !.all_citing_authors = @ \o citing,
              !.affiliations_map = TrackAllApp(@, citing),
              !.perPub[Len(h.perPub)] = Len(citing),
              !.citing = << >>, !.pending = << >>,
              !.i = @ + 1]

\* app: scholarly.fill(publication) at the start of get_citing_authors
AppFillPublication ==
    /\ pc = "fill"
    /\ \E raised \in BOOLEAN :
          /\ raised => CanFault
          /\ nFaults' = IF raised THEN nFaults + 1 ELSE nFaults
          /\ ops' = IF raised THEN BumpFault("fill") ELSE Bump("fill")
          /\ IF raised
             THEN h' = AfterCitingAuthors(<< >>) /\ pc' = "pub"
             ELSE h' = [h EXCEPT !.pub_filled = Fill(h.publications[h.i])]
                  /\ pc' = "citedby"
    /\ UNCHANGED <<nProfiles, fnVars, variant, geoVars, nGeoCalls, author_cache, req,
                   result, response, snap>>

\* scholarly.citedby(publication): the stream is opened, or the call raises
OpenCitations ==
    /\ pc = "citedby"
    /\ \E raised \in BOOLEAN :
          /\ raised => CanFault
          /\ nFaults' = IF raised THEN nFaults + 1 ELSE nFaults
          /\ ops' = IF raised THEN BumpFault("citedby") ELSE Bump("citedby")
          /\ IF ~raised
             THEN /\ h' = [h EXCEPT !.citing_papers = << >>, !.count = 0, !.pos = 0]
                  /\ pc' = "stream"
             ELSE IF variant = "api"
                  THEN /\ h' = [h EXCEPT !.citing_papers = << >>, !.j = 1]
                       /\ pc' = "affil"
                  ELSE /\ h' = AfterCitingAuthors(<< >>)
                       /\ pc' = "pub"
    /\ UNCHANGED <<nProfiles, fnVars, variant, geoVars, nGeoCalls, author_cache, req,
                   result, response, snap>>

\* api: one round of the loop of get_citing_papers
ApiNextCitation ==
    /\ pc = "stream" /\ variant = "api"
    /\ \E raised \in BOOLEAN :
          LET stream == CitedBy(h.pub_filled)
              ended == h.pos >= Len(stream)
          IN  /\ raised => CanFault
              /\ nFaults' = IF raised THEN nFaults + 1 ELSE nFaults
              /\ ops' = IF raised THEN BumpFault("next") ELSE Bump("next")
              /\ IF raised \/ ended \/ h.count >= h.max_citations
                 THEN /\ h' = [h EXCEPT !.j = 1]
                      /\ pc' = "affil"
                 ELSE /\ h' = [h EXCEPT
                                  !.citing_papers = Append(@, stream[h.pos + 1]),
                                  !.count = @ + 1,
                                  !.pos = @ + 1]
                      /\ pc' = "stream"
    /\ UNCHANGED <<nProfiles, fnVars, variant, geoVars, nGeoCalls, author_cache, req,
                   result, response, snap>>

\* app: one round of the loop of get_citing_authors, up to the first author
\* search of the citing paper
AppNextCitation ==
    /\ pc = "stream" /\ variant = "app"
    /\ \E raised \in BOOLEAN :
          LET stream == CitedBy(h.pub_filled)
              ended == h.pos >= Len(stream)
          IN  /\ raised => CanFault
              /\ nFaults' = IF raised THEN nFaults + 1 ELSE nFaults
              /\ ops' = IF raised THEN BumpFault("next") ELSE Bump("next")
              /\ IF raised \/ ended \/ h.count >= h.max_citations
                 THEN /\ h' = AfterCitingAuthors(h.citing)
                      /\ pc' = "pub"
                 ELSE LET citation == stream[h.pos + 1]
                      IN  IF citation.author # None
                          THEN /\ h' = [h EXCEPT !.pending =
                                          SliceTo(SplitOn(citation.author, StrAnd),
                                                  AppAuthorsPerCitation)]
                               /\ pc' = "search"
                          ELSE /\ h' = [h EXCEPT !.count = @ + 1, !.pos = @ + 1]
                               /\ pc' = "stream"
    /\ UNCHANGED <<nProfiles, fnVars, variant, geoVars, nGeoCalls, author_cache, req,
                   result, response, snap>>

\* app: the next of the first three authors of the citing paper is looked up
AppSearchAuthor ==
    /\ pc = "search"
    /\ h.pending # << >>
    /\ LET author_name == Strip(Head(h.pending))
           citation == CitedBy(h.pub_filled)[h.pos + 1]
       IN  IF author_name = << >>
           THEN /\ h' = [h EXCEPT !.pending = Tail(@)]
                /\ UNCHANGED <<ops, nFaults>>
           ELSE \E raised \in BOOLEAN :
                  LET found == SearchAuthor(author_name)
                      affiliation ==
                          IF raised \/ ~found.found THEN << >>
                          ELSE Get(found, "affiliation", << >>)
                      citing_author ==
                          [name |-> author_name, paper_title |-> citation.title,
                           year |-> "Unknown", affiliation |-> affiliation]
                  IN  /\ raised => CanFault
                      /\ nFaults' = IF raised THEN nFaults + 1 ELSE nFaults
                      /\ ops' = IF raised THEN BumpFault("search") ELSE Bump("search")
                      /\ h' = [h EXCEPT !.pending = Tail(@),
                                        !.citing = Append(@, citing_author)]
    /\ pc' = "search"
    /\ UNCHANGED <<nProfiles, fnVars, variant, geoVars, nGeoCalls, author_cache, req,
                   result, response, snap>>

\* app: the citing paper is done
AppCitationDone ==
    /\ pc = "search"
    /\ h.pending = << >>
    /\ h' = [h EXCEPT !.count = @ + 1, !.pos = @ + 1]
    /\ pc' = "stream"
    /\ UNCHANGED <<nProfiles, fnVars, variant, geoVars, nGeoCalls, author_cache, req,
                   result, response, ops, snap, nFaults>>

\* api: get_author_affiliation(author_name) after a cache miss: what is
\* cached and returned
AffiliationFound(raised, author_name) ==
    LET found == SearchAuthor(author_name)
    IN  IF raised \/ ~found.found THEN << >>
        ELSE clean_affiliation(Get(found, "affiliation", << >>))

\* api: the first author of the next citing paper is recorded
ApiCitingAuthor ==
    /\ pc = "affil"
    /\ h.j <= Len(h.citing_papers)
    /\ LET citing_paper == h.citing_papers[h.j]
           author_str == IF citing_paper.author = None THEN << >>
                         ELSE citing_paper.author
           author_name == Strip(SplitOn(author_str, StrAnd)[1])
       IN  IF Falsy(author_str) \/ Len(author_name) <= 1
           THEN /\ h' = [h EXCEPT !.j = @ + 1]
                /\ UNCHANGED <<author_cache, ops, nFaults>>
           ELSE \E raised \in BOOLEAN :
                  LET cached == author_name \in DOMAIN author_cache
                      affiliation == IF cached THEN author_cache[author_name]
                                     ELSE AffiliationFound(raised, author_name)
                      citing_info ==
                          [name |-> author_name, affiliation |-> affiliation,
                           paper_title |-> citing_paper.title, year |-> "Unknown"]
                  IN  /\ raised => (CanFault /\ ~cached)
                      /\ nFaults' = IF raised THEN nFaults + 1 ELSE nFaults
                      /\ ops' = IF cached THEN ops
                                ELSE IF raised THEN BumpFault("search")
                                ELSE Bump("search")
                      /\ author_cache' = IF cached THEN author_cache
                                         ELSE Put(author_cache, author_name, affiliation)
                      /\ h' = [h EXCEPT
                                 !.j = @ + 1,
                                 !.all_citing_authors = Append(@, citing_info),
                                 !.perPub[Len(h.perPub)] = @ + 1,
                                 !.affiliations_map =
                                     TrackAffiliation(@, affiliation, author_name)]
    /\ pc' = "affil"
    /\ UNCHANGED <<nProfiles, fnVars, variant, geoVars, nGeoCalls, req, result, response, snap>>

\* api: the citing papers of the publication are done
ApiNextPublication ==
    /\ pc = "affil"
    /\ h.j > Len(h.citing_papers)
    /\ h' = [h EXCEPT !.i = @ + 1]
    /\ pc' = "pub"
    /\ UNCHANGED <<nProfiles, fnVars, variant, geoVars, nGeoCalls, author_cache, req,
                   result, response, ops, snap, nFaults>>

\* the loop over the publications is done
PublicationsDone ==
    /\ pc = "pub"
    /\ h.i > Len(h.publications)
    /\ result' = [result EXCEPT !.citing_authors = h.all_citing_authors]
    /\ h' = [h EXCEPT !.g = 1, !.locations = << >>]
    /\ pc' = "geocode"
    /\ UNCHANGED <<nProfiles, fnVars, variant, geoVars, nGeoCalls, author_cache, req,
                   response, ops, snap, nFaults>>

\* every name of the model, in a fixed order
NameUniverse ==
    DeepNames \o << <<"n","1">>, <<"n","2">>, <<"n","7">>, <<"n","8">>, <<"x">> >>

NameRank(name) == CHOOSE k \in 1..Len(NameUniverse) : NameUniverse[k] = name

\* the names of a set listed by rank, upwards or downwards
RECURSIVE ListOfSet(_, _)
ListOfSet(names, upwards) ==
    IF names = {} THEN << >>
    ELSE LET first ==
               CHOOSE n \in names :
                  \A o \in names :
                     IF upwards THEN NameRank(n) <= NameRank(o)
                     ELSE NameRank(n) >= NameRank(o)
         IN  << first >> \o ListOfSet(names \ {first}, upwards)

\* api: info['authors'] without the slice (a mutant), and info['authors'][:5]
LocationAuthorsUncut(authors, upwards) == authors

LocationAuthorsApi(authors, upwards) == SliceTo(authors, MaxLocationAuthors)

\* app: list(set(info['authors']))[:5].  The order in which a set of strings
\* is listed is not defined; the model lets it be either of two orders.
LocationAuthorsApp(authors, upwards) ==
    SliceTo(ListOfSet(Range(authors), upwards), MaxLocationAuthors)

LocationAuthors(authors, upwards) ==
    IF variant = "api" THEN LocationAuthorsApi(authors, upwards)
    ELSE LocationAuthorsApp(authors, upwards)

\* the next affiliation is geocoded and, with coordinates, becomes a location
GeocodeAffiliation ==
    /\ pc = "geocode"
    /\ h.g <= Len(h.affiliations_map)
    /\ \E outcome \in GeoOutcomes, upwards \in BOOLEAN :
          LET info == h.affiliations_map[h.g]
          IN  /\ geocode_institution(info.affiliation, outcome)
              /\ upwards = FALSE => (variant = "app" /\ GeoRet # NoCoords)
              /\ ops' = IF geoLast'.called THEN Bump("geocode") ELSE ops
              /\ h' = [h EXCEPT
                        !.g = @ + 1,
                        !.locations =
                           IF GeoRet # NoCoords
                           THEN Append(@, [institution |-> info.affiliation,
                                           lat |-> GeoRet.lat,
                                           lng |-> GeoRet.lng,
                                           count |-> info.count,
                                           authors |-> LocationAuthors(info.authors,
                                                                       upwards)])
                           ELSE @]
    /\ pc' = "geocode"
    /\ UNCHANGED <<nProfiles, fnVars, variant, nGeoCalls, author_cache, req, result,
                   response, snap, nFaults>>

\* the handler answers with `result`
Respond ==
    /\ pc = "geocode"
    /\ h.g > Len(h.affiliations_map)
    /\ result' = [result EXCEPT !.locations = h.locations]
    /\ response' = [status |-> 200, body |-> result']
    /\ pc' = "done"
    /\ UNCHANGED <<nProfiles, fnVars, variant, geoVars, nGeoCalls, author_cache, req, h,
                   ops, snap, nFaults>>

Init ==
    /\ FnIdle
    /\ variant \in {"api", "app"}
    /\ ProcessStart
    /\ nGeoCalls = 0
    /\ NoRequest

Next ==
    \/ \E endpoint \in {"analyze", "quick-analyze"}, data \in Payloads :
          Receive(endpoint, data)
    \/ SetupProxy
    \/ AuthorFetchFails
    \/ AuthorFetched
    \/ QuickAnalyze
    \/ ApiFillPublication
    \/ AppListPublication
    \/ AppFillPublication
    \/ OpenCitations
    \/ ApiNextCitation
    \/ AppNextCitation
    \/ AppSearchAuthor
    \/ AppCitationDone
    \/ ApiCitingAuthor
    \/ ApiNextPublication
    \/ PublicationsDone
    \/ GeocodeAffiliation
    \/ Respond

Spec == Init /\ [][Next]_vars

-----------------------------------------------------------------------------
(* Properties of the request handlers *)

Url == Get(req.json, "url", << >>)

Answered(status) == pc = "done" /\ response.status = status

CachesAsOnArrival ==
    /\ geocode_cache = snap.geocode_cache
    /\ author_cache = snap.author_cache

\* C1: a request whose url holds no 'user=' followed by an id character is
\* answered 400 with an 'error' field, with no upstream operation performed
\* and geocode_cache and author_cache unchanged.
C1_InvalidUrlRejected ==
    (pc # "idle" /\ UserOccurrences(Url) = {}) =>
        /\ Answered(400)
        /\ "error" \in DOMAIN response.body
        /\ ops = ZeroOps
        /\ CachesAsOnArrival

\* a URL with 'user=' but no id is rejected by a process whose caches hold
\* entries
C1_Witness ==
    /\ Answered(400)
    /\ Url # << >>
    /\ UserOccurrences(Url) = {}
    /\ ops = ZeroOps
    /\ geocode_cache # EmptyMap
    /\ author_cache # EmptyMap

\* C2: when the URL yields an author id and get_author_info returns None,
\* the answer is an error (503 in api, 404 in app) with an 'error' field, no
\* publication is filled, no citation listed, no affiliation searched,
\* nothing geocoded, and both caches are as they were.
C2_AuthorFetchFailureAnswered ==
    (pc = "done" /\ h.fetched = "failed") =>
        /\ response.status = (IF variant = "api" THEN 503 ELSE 404)
        /\ "error" \in DOMAIN response.body
        /\ ops.fill = 0 /\ ops.citedby = 0 /\ ops.next = 0
        /\ ops.search = 0 /\ ops.geocode = 0
        /\ CachesAsOnArrival

\* api answers 503 for a profile that exists, with entries in both caches
C2_Witness ==
    /\ variant = "api"
    /\ Answered(503)
    /\ h.fetched = "failed"
    /\ h.author_id \in DOMAIN AuthorDB
    /\ ops.author = 1
    /\ geocode_cache # EmptyMap
    /\ author_cache # EmptyMap

\* C3: in api at most 5 publications are listed, filled and have their
\* citations fetched, for every integer max_papers.
C3_AtMostFivePublications ==
    (variant = "api" /\ pc # "idle") =>
        /\ result # NoValue => Len(result.publications) <= MaxPapersCap
        /\ ops.fill <= MaxPapersCap
        /\ ops.citedby <= MaxPapersCap

\* C3 restricted to max_papers >= 0 (or absent), which the code satisfies
C3_AtMostFiveWhenNotNegative ==
    (variant = "api" /\ pc # "idle" /\ Get(req.json, "max_papers", 0) >= 0) =>
        /\ result # NoValue => Len(result.publications) <= MaxPapersCap
        /\ ops.fill <= MaxPapersCap
        /\ ops.citedby <= MaxPapersCap

RECURSIVE Sum(_)
Sum(seq) == IF seq = << >> THEN 0 ELSE Head(seq) + Sum(Tail(seq))

\* the first author of a citing paper, as api reads it
FirstAuthor(paper) ==
    IF paper.author = None THEN << >>
    ELSE Strip(SplitOn(paper.author, StrAnd)[1])

\* C4: in api at most 10 citing papers are collected for each processed
\* publication, each contributing at most one citing author, its first
\* author, so citing_authors has at most 10 entries per listed publication.
C4_AtMostTenCitingAuthorsPerPublication ==
    (variant = "api" /\ pc # "idle") =>
        /\ Len(h.citing_papers) <= MaxCitationsCap
        /\ \A k \in 1..Len(h.perPub) : h.perPub[k] <= MaxCitationsCap
        /\ pc = "affil" => h.perPub[Len(h.perPub)] <= h.j - 1
        /\ Sum(h.perPub) = Len(h.all_citing_authors)
        /\ result # NoValue => Len(h.perPub) = Len(result.publications)
        /\ \A k \in 1..Len(h.all_citing_authors) :
              \E n \in 1..Len(h.publications) :
                 \E c \in Range(CitedBy(h.publications[n])) :
                    /\ FirstAuthor(c) = h.all_citing_authors[k].name
                    /\ c.title = h.all_citing_authors[k].paper_title
        /\ Answered(200) =>
              Len(response.body.citing_authors)
                  <= MaxCitationsCap * Len(response.body.publications)

\* a request for more than 10 citations per paper, answered with exactly 10
\* citing authors for a publication whose citation stream is longer
C4_Witness ==
    /\ variant = "api"
    /\ Answered(200)
    /\ Get(req.json, "max_citations", 0) > MaxCitationsCap
    /\ \E k \in 1..Len(h.perPub) :
          /\ h.perPub[k] = MaxCitationsCap
          /\ Len(CitedBy(h.publications[k])) > MaxCitationsCap
    /\ Len(response.body.citing_authors) = MaxCitationsCap

\* C6: once the author record is fetched, analyze_scholar answers 200 with
\* exactly the keys author, publications, citing_authors and locations,
\* whichever later upstream calls fail.
C6_AnalysisAlwaysAnswers200 ==
    (pc = "done" /\ req.endpoint = "analyze" /\ h.fetched = "ok") =>
        /\ response.status = 200
        /\ DOMAIN response.body = ResultKeys
        /\ response.body = result

\* an analysis answered 200 although two upstream calls raised on the way
C6_Witness ==
    /\ Answered(200)
    /\ req.endpoint = "analyze"
    /\ h.fetched = "ok"
    /\ ops.faults >= 2
    /\ DOMAIN response.body = ResultKeys
    /\ response.body.publications # << >>

\* what geocode_institution returned for an affiliation of the response
GeoResultOf(affiliation) ==
    IF variant = "app" THEN lru[affiliation]
    ELSE IF IsBlank(affiliation) THEN NoCoords
    ELSE geocode_cache[Strip(affiliation)]

CitingWith(body, affiliation) ==
    {k \in 1..Len(body.citing_authors) :
        body.citing_authors[k].affiliation = affiliation}

\* C7: in a 200 response, locations has at most one entry per affiliation;
\* an entry's institution is the non-empty affiliation of a citing author of
\* the response and was geocoded to the entry's coordinates, affiliations
\* geocoded to None have no entry, and count is the number of citing_authors
\* entries with that affiliation.
C7_LocationsMatchCitingAuthors ==
    Answered(200) =>
        LET body == response.body
            locs == body.locations
        IN  /\ \A a, b \in 1..Len(locs) :
                  locs[a].institution = locs[b].institution => a = b
            /\ \A a \in 1..Len(locs) :
                  /\ locs[a].institution # << >>
                  /\ CitingWith(body, locs[a].institution) # {}
                  /\ GeoResultOf(locs[a].institution) # NoCoords
                  /\ locs[a].lat = GeoResultOf(locs[a].institution).lat
                  /\ locs[a].lng = GeoResultOf(locs[a].institution).lng
                  /\ locs[a].count =
                        Cardinality(CitingWith(body, locs[a].institution))
            /\ \A k \in 1..Len(body.citing_authors) :
                  LET aff == body.citing_authors[k].affiliation
                  IN  (aff # << >> /\ GeoResultOf(aff) = NoCoords) =>
                         \A a \in 1..Len(locs) : locs[a].institution # aff
            /\ \A k \in 1..Len(body.citing_authors) :
                  LET aff == body.citing_authors[k].affiliation
                  IN  (aff # << >> /\ GeoResultOf(aff) # NoCoords) =>
                         \E a \in 1..Len(locs) : locs[a].institution = aff

\* a response with a location counting one author twice, and a citing
\* author whose affiliation got no coordinates
C7_Witness ==
    /\ Answered(200)
    /\ \E a \in 1..Len(response.body.locations) :
          response.body.locations[a].count
              > Len(response.body.locations[a].authors)
    /\ \E k \in 1..Len(response.body.citing_authors) :
          LET aff == response.body.citing_authors[k].affiliation
          IN  aff # << >> /\ GeoResultOf(aff) = NoCoords

\* the names in seq, each once, in the order of first appearance
RECURSIVE Distinct(_)
Distinct(seq) ==
    IF seq = << >> THEN << >>
    ELSE LET front == Distinct(SubSeq(seq, 1, Len(seq) - 1))
             last == seq[Len(seq)]
         IN  IF last \in Range(front) THEN front ELSE Append(front, last)

\* the names of the citing authors of the response with this affiliation
NamesWith(body, affiliation) ==
    LET at == SelectSeq(body.citing_authors,
                        LAMBDA e : e.affiliation = affiliation)
    IN  [k \in 1..Len(at) |-> at[k].name]

\* C8: in every location of a 200 response, authors holds at most 5 names,
\* none twice, each the name of a citing author with that affiliation, so
\* no more than count; in api they are the first five distinct names in
\* order of first appearance.
C8_LocationAuthors ==
    Answered(200) =>
        \A a \in 1..Len(response.body.locations) :
            LET loc == response.body.locations[a]
                names == NamesWith(response.body, loc.institution)
            IN  /\ Len(loc.authors) <= MaxLocationAuthors
                /\ \A x, y \in 1..Len(loc.authors) :
                      loc.authors[x] = loc.authors[y] => x = y
                /\ Range(loc.authors) \subseteq Range(names)
                /\ Len(loc.authors) <= loc.count
                /\ Len(loc.authors) =
                      Min(Cardinality(Range(names)), MaxLocationAuthors)
                /\ variant = "api" =>
                      loc.authors = SliceTo(Distinct(names), MaxLocationAuthors)

\* a location of api with more than five distinct citing authors
C8_Witness ==
    /\ variant = "api"
    /\ Answered(200)
    /\ \E a \in 1..Len(response.body.locations) :
          LET loc == response.body.locations[a]
          IN  /\ Len(loc.authors) = MaxLocationAuthors
              /\ Cardinality(Range(NamesWith(response.body, loc.institution)))
                    > MaxLocationAuthors
              /\ loc.count > MaxLocationAuthors

-----------------------------------------------------------------------------
(* get_citing_papers, api (lines 189-213), step by step *)

\* the largest max_citations tried, and the longest finite citation stream
MaxCitationsArg == 3

MaxStreamLen == 4

\* the length of a stream that never ends, and the position of no error
Unbounded == -1

NoRaise == -1

\* scholarly.citedby(publication) as the function sees it: the k-th citing
\* paper is k; the stream has `length` papers or never ends; the call itself
\* raises (raises_at = 0), or the k-th next() does, or nothing does
CitingStreams ==
    { [length |-> n, raises_at |-> r] :
        n \in {Unbounded} \cup 0..MaxStreamLen,
        r \in {NoRaise} \cup 0..(MaxStreamLen + 1) }

CitingArgs ==
    { [max_citations |-> m, stream |-> s] :
        m \in (-2)..MaxCitationsArg, s \in CitingStreams }

\* the locals on entry: citing_papers = []
CitingLocals == [at |-> "citedby", citing_papers |-> << >>, count |-> 0, pulled |-> 0]

InitCiting ==
    /\ fnArg \in CitingArgs
    /\ fnRet = CitingLocals
    /\ fnDone = FALSE
    /\ NoProcess

\* the break of the loop one round late
CitingLimitReachedLate(count, max_citations) == count > max_citations

\* if count >= max_citations: break
CitingLimitReached(count, max_citations) == count >= max_citations

\* citations = scholarly.citedby(publication); count = 0
CitingOpen ==
    /\ ~fnDone /\ fnRet.at = "citedby"
    /\ fnRet' = [fnRet EXCEPT !.at = IF fnArg.stream.raises_at = 0
                                     THEN "except" ELSE "loop"]
    /\ UNCHANGED <<fnArg, fnDone, variant, geoVars, nGeoCalls, reqVars>>

\* one round of `for citation in citations`: the iterator is asked for the
\* next paper, which raises, ends the loop, or gives a paper that is
\* appended unless the limit is reached
CitingRound ==
    /\ ~fnDone /\ fnRet.at = "loop"
    /\ LET stream == fnArg.stream
           k == fnRet.pulled + 1
       IN  fnRet' =
              IF stream.raises_at = k
              THEN [fnRet EXCEPT !.at = "except", !.pulled = k]
              ELSE IF stream.length # Unbounded /\ k > stream.length
              THEN [fnRet EXCEPT !.at = "return", !.pulled = k]
              ELSE IF CitingLimitReached(fnRet.count, fnArg.max_citations)
              THEN [fnRet EXCEPT !.at = "return", !.pulled = k]
              ELSE [fnRet EXCEPT !.citing_papers = Append(@, k),
                                 !.count = @ + 1, !.pulled = k]
    /\ UNCHANGED <<fnArg, fnDone, variant, geoVars, nGeoCalls, reqVars>>

\* except Exception as e: logger.warning(...)
CitingExcept ==
    /\ ~fnDone /\ fnRet.at = "except"
    /\ fnRet' = [fnRet EXCEPT !.at = "return"]
    /\ UNCHANGED <<fnArg, fnDone, variant, geoVars, nGeoCalls, reqVars>>

\* return citing_papers
CitingReturn ==
    /\ ~fnDone /\ fnRet.at = "return"
    /\ fnDone' = TRUE
    /\ UNCHANGED <<fnArg, fnRet, variant, geoVars, nGeoCalls, reqVars>>

NextCiting == CitingOpen \/ CitingRound \/ CitingExcept \/ CitingReturn

\* the interpreter keeps running the function while it has a step to take
SpecCiting == InitCiting /\ [][NextCiting]_vars /\ WF_vars(NextCiting)

\* how many papers the stream gives before it ends or raises; Unbounded if
\* it does neither
PapersBeforeEnd(stream) ==
    IF stream.raises_at = NoRaise \/
       (stream.length # Unbounded /\ stream.raises_at > stream.length)
    THEN stream.length
    ELSE Max(stream.raises_at - 1, 0)

\* what the claim says is returned: the first max(max_citations, 0) papers,
\* or those before the end or the error if that comes first
CitingExpected ==
    LET limit == Max(fnArg.max_citations, 0)
        given == PapersBeforeEnd(fnArg.stream)
        n == IF given = Unbounded THEN limit ELSE Min(limit, given)
    IN  [k \in 1..n |-> k]

CitingSafe ==
    /\ Len(fnRet.citing_papers) <= Max(fnArg.max_citations, 0)
    /\ fnRet.citing_papers = [k \in 1..Len(fnRet.citing_papers) |-> k]
    /\ fnArg.stream.length # Unbounded =>
          Len(fnRet.citing_papers) <= fnArg.stream.length
    /\ fnDone => fnRet.citing_papers = CitingExpected

\* C11: get_citing_papers always returns; what it holds and returns is a
\* prefix of the citation stream, in stream order, of at most
\* max(max_citations, 0) papers, also for a stream that never ends; if the
\* call or the stream raises, the papers collected before are returned.
C11_CitingPapersPrefix == []CitingSafe /\ <>fnDone

\* returned with max_citations papers of a stream that never ends
C11_Witness ==
    /\ fnDone
    /\ fnArg.stream.length = Unbounded
    /\ fnArg.stream.raises_at = NoRaise
    /\ fnArg.max_citations = MaxCitationsArg
    /\ Len(fnRet.citing_papers) = MaxCitationsArg

\* returned the two papers collected before the third next() raised
C11_WitnessRaised ==
    /\ fnDone
    /\ fnArg.stream.raises_at = 3
    /\ fnArg.max_citations = MaxCitationsArg
    /\ fnRet.citing_papers = <<1, 2>>

-----------------------------------------------------------------------------
(* geocode_institution called from two request threads of one process *)

\* the threads of the server, and the calls each request makes
Threads == {"t1", "t2"}

MaxThreadCalls == 2

ThreadInputs == { <<"M","I","T">>, <<" ","M","I","T">>, <<"E","T","H"," ","Z","u","r","i","c","h">> }

\* a thread between two calls
ThreadIdle(calls) == [calls |-> calls, institution |-> << >>, key |-> << >>,
                      outcome |-> [kind |-> "none"], ret |-> NoCoords]

\* In this specification pc and h hold one entry per thread; geocode_cache,
\* lru and the geocoder are shared.  geoLast is the last assignment
\* geocode_cache[institution] = ...: the key, whether the key held
\* coordinates before, and whether it holds None after.
InitThreads ==
    /\ FnIdle
    /\ variant \in {"api", "app"}
    /\ ProcessStart
    /\ nGeoCalls = 0
    /\ author_cache = EmptyMap
    /\ pc = [t \in Threads |-> "idle"]
    /\ h = [t \in Threads |-> ThreadIdle(0)]
    /\ req = [none |-> TRUE]
    /\ result = [none |-> TRUE]
    /\ response = [none |-> TRUE]
    /\ ops = ZeroOps
    /\ snap = [geocode_cache |-> EmptyMap, author_cache |-> EmptyMap]
    /\ nFaults = 0
    /\ nProfiles = 0

ThreadFrame == <<fnVars, variant, nGeoCalls, author_cache, req, result,
                 response, ops, snap, nFaults, nProfiles, geoFirst>>

\* a thread calls geocode_institution(institution); in app the lru_cache
\* wrapper answers a call whose argument it has stored
ThreadCall(t, institution) ==
    /\ pc[t] = "idle"
    /\ h[t].calls < MaxThreadCalls
    /\ IF variant = "app" /\ institution \in DOMAIN lru
       THEN /\ h' = [h EXCEPT ![t] = [ThreadIdle(@.calls + 1) EXCEPT
                                         !.institution = institution,
                                         !.ret = lru[institution]]]
            /\ pc' = [pc EXCEPT ![t] = "idle"]
       ELSE /\ h' = [h EXCEPT ![t] = [ThreadIdle(@.calls + 1) EXCEPT
                                         !.institution = institution]]
            /\ pc' = [pc EXCEPT ![t] = "check"]
    /\ UNCHANGED <<ThreadFrame, geocode_cache, lru, geocoded, geoLast>>

\* the blank test, strip(), and `if institution in geocode_cache`
ThreadCheck(t) ==
    /\ pc[t] = "check"
    /\ LET institution == h[t].institution
           key == Strip(institution)
       IN  IF IsBlank(institution)
           THEN /\ h' = [h EXCEPT ![t].ret = NoCoords]
                /\ pc' = [pc EXCEPT ![t] = "return"]
           ELSE IF key \in DOMAIN geocode_cache
           THEN /\ h' = [h EXCEPT ![t].key = key, ![t].ret = geocode_cache[key]]
                /\ pc' = [pc EXCEPT ![t] = "return"]
           ELSE /\ h' = [h EXCEPT ![t].key = key]
                /\ pc' = [pc EXCEPT ![t] = "geocode"]
    /\ UNCHANGED <<ThreadFrame, geocode_cache, lru, geocoded, geoLast>>

\* time.sleep(...); location = geolocator.geocode(institution, timeout=10)
ThreadGeocode(t, outcome) ==
    /\ pc[t] = "geocode"
    /\ geocoded' = Append(geocoded, h[t].key)
    /\ h' = [h EXCEPT ![t].outcome = outcome]
    /\ pc' = [pc EXCEPT ![t] = "store"]
    /\ UNCHANGED <<ThreadFrame, geocode_cache, lru, geoLast>>

\* geocode_cache[institution] = result, or = None after no location or an
\* exception
ThreadStore(t) ==
    /\ pc[t] = "store"
    /\ LET key == h[t].key
           miss == GeocodeMiss(geocode_cache, key, h[t].outcome)
           before == IF key \in DOMAIN geocode_cache
                     THEN geocode_cache[key] ELSE NoCoords
       IN  /\ geocode_cache' = miss.cache
           /\ h' = [h EXCEPT ![t].ret = miss.ret]
           /\ geoLast' = [key |-> key, had_coords |-> before # NoCoords,
                          none_after |-> miss.ret = NoCoords]
    /\ pc' = [pc EXCEPT ![t] = "return"]
    /\ UNCHANGED <<ThreadFrame, lru, geocoded>>

\* return; in app the lru_cache wrapper stores the result under the argument
ThreadReturn(t) ==
    /\ pc[t] = "return"
    /\ lru' = IF variant = "app" THEN Put(lru, h[t].institution, h[t].ret) ELSE lru
    /\ pc' = [pc EXCEPT ![t] = "idle"]
    /\ UNCHANGED <<ThreadFrame, geocode_cache, geocoded, geoLast, h>>

NextThreads ==
    \E t \in Threads :
        \/ \E institution \in ThreadInputs : ThreadCall(t, institution)
        \/ ThreadCheck(t)
        \/ \E outcome \in GeoOutcomes : ThreadGeocode(t, outcome)
        \/ ThreadStore(t)
        \/ ThreadReturn(t)

SpecThreads == InitThreads /\ [][NextThreads]_vars

\* the geocoder has been called at most once for every stripped string
GeocodedOncePerKey ==
    \A k \in 1..Len(geocoded) : Count(geocoded, geocoded[k]) <= 1

\* no assignment has put None where coordinates were
CoordinatesKept ==
    geoLast # NoCall => ~(geoLast.had_coords /\ geoLast.none_after)

\* C12: with two threads sharing geocode_cache, under every interleaving the
\* geocoder is called at most once for a stripped institution string, and a
\* cache entry holding coordinates is never overwritten with None.
C12_ThreadsGeocodeOnce == GeocodedOncePerKey /\ CoordinatesKept

\* what the code does guarantee: one geocoder call per thread and string
\* in api, where every call of a thread goes through geocode_cache
C12_OncePerThread ==
    variant = "api" =>
        \A k \in 1..Len(geocoded) :
            Count(geocoded, geocoded[k]) <= Cardinality(Threads)

====
